---- MODULE Spec2Model ----
(***************************************************************************)
(* SAANS Data Capture App (src/App.jsx): the schema, the record            *)
(* collection kept in React state, its persistence in localStorage, the    *)
(* import reconciliation of spreadsheet rows and the export serialisation. *)
(*                                                                         *)
(* A JavaScript string is modelled as the sequence of its characters, each *)
(* character being a one-character TLA+ string; the character U+2026       *)
(* (horizontal ellipsis) of the first label is written "U+2026".  Cell and *)
(* input texts are opaque to the program and are modelled as TLA+ strings. *)
(***************************************************************************)
EXTENDS Integers, Sequences, FiniteSets, TLC

VARIABLES phase, mounted, records, form, editingIndex, storage, loaded,
          reading, event, row, out, writable

vars == <<phase, mounted, records, form, editingIndex, storage, loaded,
          reading, event, row, out, writable>>

appVars == <<phase, mounted, records, form, editingIndex, storage, loaded,
             reading, event, writable>>

----------------------------------------------------------------------------
(* Bounds of the model *)

\* longest record collection a create or an import may build; also the
\* most data rows of a decoded sheet
MaxRecords == 2

\* most FileReader reads in flight at once
MaxReading == 2

\* most columns of an import row in the reconciliation specification
MaxHeaders == 3

\* the longest label given to toKey
MaxLabelLen == 4

----------------------------------------------------------------------------
(* Strings *)

UpperCase == <<"A", "B", "C", "D", "E", "F", "G", "H", "I", "J", "K", "L", "M", "N", "O", "P", "Q", "R", "S", "T", "U", "V", "W", "X", "Y", "Z">>

LowerCase == <<"a", "b", "c", "d", "e", "f", "g", "h", "i", "j", "k", "l", "m", "n", "o", "p", "q", "r", "s", "t", "u", "v", "w", "x", "y", "z">>

Digits == <<"0", "1", "2", "3", "4", "5", "6", "7", "8", "9">>

UpperSet == {UpperCase[i] : i \in 1..Len(UpperCase)}

LowerOf ==
  [c \in UpperSet |-> LowerCase[CHOOSE i \in 1..Len(UpperCase) : UpperCase[i] = c]]

\* String.prototype.toLowerCase on one character
LowerChar(c) == IF c \in UpperSet THEN LowerOf[c] ELSE c

\* String.prototype.toLowerCase
toLowerCase(s) == [i \in 1..Len(s) |-> LowerChar(s[i])]

\* the characters String.prototype.trim strips
IsWhiteSpace(c) == c \in {" ", "\t"}

RECURSIVE trimStart(_)
trimStart(s) ==
  IF s # <<>> /\ IsWhiteSpace(Head(s)) THEN trimStart(Tail(s)) ELSE s

RECURSIVE trimEnd(_)
trimEnd(s) ==
  IF s # <<>> /\ IsWhiteSpace(s[Len(s)])
  THEN trimEnd(SubSeq(s, 1, Len(s) - 1))
  ELSE s

\* String.prototype.trim
trim(s) == trimEnd(trimStart(s))

AlnumSet ==
  {LowerCase[i] : i \in 1..Len(LowerCase)} \cup {Digits[i] : i \in 1..Len(Digits)}

\* the character class [a-z0-9]
IsAlnum(c) == c \in AlnumSet

RECURSIVE dropRun(_)
dropRun(s) ==
  IF s # <<>> /\ ~IsAlnum(Head(s)) THEN dropRun(Tail(s)) ELSE s

\* replaceRuns writing one separator for every character of a run
replaceRuns_Each(s) == [i \in 1..Len(s) |-> IF IsAlnum(s[i]) THEN s[i] ELSE "_"]

\* .replace(/[^a-z0-9]+/g, "_")
RECURSIVE replaceRuns(_)
replaceRuns(s) ==
  IF s = <<>> THEN <<>>
  ELSE IF IsAlnum(Head(s)) THEN <<Head(s)>> \o replaceRuns(Tail(s))
  ELSE <<"_">> \o replaceRuns(dropRun(s))

RECURSIVE stripStart(_)
stripStart(s) ==
  IF s # <<>> /\ Head(s) = "_" THEN stripStart(Tail(s)) ELSE s

RECURSIVE stripEnd(_)
stripEnd(s) ==
  IF s # <<>> /\ s[Len(s)] = "_"
  THEN stripEnd(SubSeq(s, 1, Len(s) - 1))
  ELSE s

\* .replace(/^_+|_+$/g, "")
stripUnderscores(s) == stripEnd(stripStart(s))

toKey(label) == stripUnderscores(replaceRuns(toLowerCase(label)))

----------------------------------------------------------------------------
(* Schema *)

\* the first two of the 23 labels
FIELD_LABELS ==
  << <<"M", "o", "n", "t", "h", " ", "U+2026", "U+2026", "U+2026", "U+2026", "U+2026">>,
     <<"N", "a", "m", "e", " ", "o", "f", " ", "t", "h", "e", " ", "B", "l", "o", "c", "k">> >>

FIELD_KEYS == [i \in 1..Len(FIELD_LABELS) |-> toKey(FIELD_LABELS[i])]

FieldIndexes == 1..Len(FIELD_LABELS)

KeySet == {FIELD_KEYS[i] : i \in FieldIndexes}

----------------------------------------------------------------------------
(* JavaScript values *)

\* the texts typed into a form input
Texts == {"", "x"}

\* the texts of a spreadsheet cell in the reconciliation specification
CellTexts == {"", "x", "y"}

\* the value of reading a property an object does not have
UndefinedText == "undefined"

NoProps == [k \in {} |-> ""]

\* an array element: an object with its own properties, an empty slot
\* of a sparse array, undefined or null
Obj(props) == [t |-> "object", o |-> props]

Hole == [t |-> "hole", o |-> NoProps]

Undefined == [t |-> "undefined", o |-> NoProps]

Null == [t |-> "null", o |-> NoProps]

IsObject(v) == v.t = "object"

\* rec[k]
Get(rec, k) == IF k \in DOMAIN rec.o THEN rec.o[k] ELSE UndefinedText

\* { ...rec, [k]: v }
WithProp(rec, k, v) ==
  Obj([j \in (DOMAIN rec.o) \cup {k} |-> IF j = k THEN v ELSE rec.o[j]])

emptyRecord == Obj([k \in KeySet |-> ""])

\* [...arr]: iterating a sparse array reads its empty slots as undefined
Spread(arr) == [i \in 1..Len(arr) |-> IF arr[i] = Hole THEN Undefined ELSE arr[i]]

\* SetIndex writing one position too far
SetIndex_OffByOne(arr, index, v) ==
  [i \in 1..(IF index + 2 > Len(arr) THEN index + 2 ELSE Len(arr)) |->
     IF i = index + 2 THEN v
     ELSE IF i <= Len(arr) THEN arr[i]
     ELSE Hole]

\* updated[index] = v with a 0-based index: an index at or past the
\* length extends the array and leaves empty slots in between
SetIndex(arr, index, v) ==
  [i \in 1..(IF index + 1 > Len(arr) THEN index + 1 ELSE Len(arr)) |->
     IF i = index + 1 THEN v
     ELSE IF i <= Len(arr) THEN arr[i]
     ELSE Hole]

\* r.filter((_, idx) => idx !== index): empty slots are not visited
RECURSIVE FilterFrom(_, _, _)
FilterFrom(arr, idx, index) ==
  IF idx >= Len(arr) THEN <<>>
  ELSE IF arr[idx + 1] # Hole /\ idx # index
       THEN <<arr[idx + 1]>> \o FilterFrom(arr, idx + 1, index)
       ELSE FilterFrom(arr, idx + 1, index)

FilterOut(arr, index) == FilterFrom(arr, 0, index)

----------------------------------------------------------------------------
(* localStorage item "saans_records_v1" *)

Absent == [kind |-> "absent", val |-> <<>>]

Json(v) == [kind |-> "json", val |-> v]

Unparsable == [kind |-> "unparsable", val |-> <<>>]

\* JSON.stringify(records): an array element that is not an object
\* is written as null
stringify(recs) ==
  Json([i \in 1..Len(recs) |-> IF IsObject(recs[i]) THEN recs[i] ELSE Null])

----------------------------------------------------------------------------
(* Rendering *)

\* records.map((rec, i) => ... rec[k] ...) throws on an element that is
\* undefined or null; map does not visit empty slots
Renders(recs) == \A i \in 1..Len(recs) : recs[i].t \in {"object", "hole"}

\* the 0-based indexes of the table rows that carry Edit and Delete buttons
RowIndexes(recs) == {i \in 0..(Len(recs) - 1) : IsObject(recs[i + 1])}

----------------------------------------------------------------------------
(* Import rows *)

\* An import row is the sequence of its <<header, value>> entries in
\* Object.keys order.  Headers are distinct, as the keys of an object
\* are, and none of them is "hasOwnProperty", so that row.hasOwnProperty
\* is the inherited method.
HasOwn(r, h) == \E i \in 1..Len(r) : r[i][1] = h

Cell(r, h) == r[CHOOSE i \in 1..Len(r) : r[i][1] = h][2]

Keys(r) == [i \in 1..Len(r) |-> r[i][1]]

\* Object.keys(row).find(h => h.toLowerCase().trim() === label.toLowerCase().trim()),
\* as the position of the header found, 0 when none
FindMatch(r, label) ==
  LET hits == {i \in 1..Len(r) :
                 trim(toLowerCase(r[i][1])) = trim(toLowerCase(label))}
  IN IF hits = {} THEN 0 ELSE CHOOSE i \in hits : \A j \in hits : i <= j

\* ResolveField with the key header preferred to the label header
ResolveField_KeyFirst(r, acc, idx) ==
  LET label == FIELD_LABELS[idx]
      key == FIELD_KEYS[idx]
      m == FindMatch(r, label)
  IN IF HasOwn(r, key) THEN WithProp(acc, key, Cell(r, key))
     ELSE IF HasOwn(r, label) THEN WithProp(acc, key, Cell(r, label))
     ELSE IF m # 0 /\ r[m][1] # <<>> THEN WithProp(acc, key, r[m][2])
     ELSE acc

\* ResolveField falling back on the first cell of a row without a match
ResolveField_FirstCell(r, acc, idx) ==
  LET label == FIELD_LABELS[idx]
      key == FIELD_KEYS[idx]
      m == FindMatch(r, label)
  IN IF HasOwn(r, label) THEN WithProp(acc, key, Cell(r, label))
     ELSE IF HasOwn(r, key) THEN WithProp(acc, key, Cell(r, key))
     ELSE IF m # 0 /\ r[m][1] # <<>> THEN WithProp(acc, key, r[m][2])
     ELSE IF r # <<>> THEN WithProp(acc, key, r[1][2])
     ELSE acc

\* the body of FIELD_LABELS.forEach for one field
ResolveField(r, acc, idx) ==
  LET label == FIELD_LABELS[idx]
      key == FIELD_KEYS[idx]
      m == FindMatch(r, label)
  IN IF HasOwn(r, label) THEN WithProp(acc, key, Cell(r, label))
     ELSE IF HasOwn(r, key) THEN WithProp(acc, key, Cell(r, key))
     ELSE IF m # 0 /\ r[m][1] # <<>> THEN WithProp(acc, key, r[m][2])
     ELSE acc

RECURSIVE ResolveFrom(_, _, _)
ResolveFrom(r, acc, idx) ==
  IF idx > Len(FIELD_LABELS) THEN acc
  ELSE ResolveFrom(r, ResolveField(r, acc, idx), idx + 1)

\* the callback of json.map
mapRow(r) == ResolveFrom(r, emptyRecord, 1)

\* mapped with the rows in reverse order
mapped_Reversed(json) == [i \in 1..Len(json) |-> mapRow(json[Len(json) + 1 - i])]

mapped(json) == [i \in 1..Len(json) |-> mapRow(json[i])]

----------------------------------------------------------------------------
(* Export rows *)

\* the callback of records.map in downloadExcel: the row's entries in
\* insertion order
\* r[h] = v on a row under construction
SetEntry(r, h, v) ==
  IF HasOwn(r, h)
  THEN [i \in 1..Len(r) |-> IF r[i][1] = h THEN <<h, v>> ELSE r[i]]
  ELSE Append(r, <<h, v>>)

\* ExportFrom writing each value under the field's key
RECURSIVE ExportFrom_KeyHeaders(_, _, _)
ExportFrom_KeyHeaders(rec, r, idx) ==
  IF idx > Len(FIELD_KEYS) THEN r
  ELSE ExportFrom_KeyHeaders(rec, SetEntry(r, FIELD_KEYS[idx], Get(rec, FIELD_KEYS[idx])), idx + 1)

RECURSIVE ExportFrom(_, _, _)
ExportFrom(rec, r, idx) ==
  IF idx > Len(FIELD_KEYS) THEN r
  ELSE ExportFrom(rec, SetEntry(r, FIELD_LABELS[idx], Get(rec, FIELD_KEYS[idx])), idx + 1)

exportRow(rec) == ExportFrom(rec, <<>>, 1)

NoRow == <<>>

\* exportRows with the rows in reverse order
exportRows_Reversed(recs) ==
  [i \in 1..Len(recs) |->
     IF recs[Len(recs) + 1 - i] = Hole THEN NoRow ELSE exportRow(recs[Len(recs) + 1 - i])]

\* records.map(...): an empty slot stays an empty slot
exportRows(recs) ==
  [i \in 1..Len(recs) |-> IF recs[i] = Hole THEN NoRow ELSE exportRow(recs[i])]

----------------------------------------------------------------------------
(* Inputs *)

\* the sequences over S of length at most n
RECURSIVE SeqsUpTo(_, _)
SeqsUpTo(S, n) ==
  IF n = 0 THEN {<<>>}
  ELSE LET shorter == SeqsUpTo(S, n - 1)
       IN shorter \cup {Append(s, x) : s \in shorter, x \in S}

Distinct(s) == \A i, j \in 1..Len(s) : i # j => s[i] # s[j]

\* header rows of the sheets imported in the application specification
SheetHeaderRows ==
  { << <<"N", "a", "m", "e", " ", "o", "f", " ", "t", "h", "e", " ", "B", "l", "o", "c", "k">> >>,
    << <<"m", "o", "n", "t", "h">>,
       <<"N", "a", "m", "e", " ", "o", "f", " ", "t", "h", "e", " ", "B", "l", "o", "c", "k">> >>,
    << <<"B", "l", "o", "c", "k">> >> }

\* headers of the rows of the reconciliation specification
RowHeaders ==
  { <<"N", "a", "m", "e", " ", "o", "f", " ", "t", "h", "e", " ", "B", "l", "o", "c", "k">>,
    <<"m", "o", "n", "t", "h">>,
    <<"B", "l", "o", "c", "k">>,
    <<"n", "a", "m", "e", "_", "o", "f", "_", "t", "h", "e", "_", "b", "l", "o", "c", "k">>,
    <<"N", "A", "M", "E", " ", "O", "F", " ", "T", "H", "E", " ", "B", "L", "O", "C", "K", " ", " ">>,
    <<"n", "a", "m", "e", " ", "o", "f", " ", "t", "h", "e", " ", "b", "l", "o", "c", "k">>,
    <<"M", "o", "n", "t", "h", " ", "U+2026", "U+2026", "U+2026", "U+2026", "U+2026">>,
    <<"M", "O", "N", "T", "H", " ", "U+2026", "U+2026", "U+2026", "U+2026", "U+2026">>,
    <<"R", "e", "m", "a", "r", "k", "s">> }

\* sheet_to_json(ws, {defval: ""}): every row has every column of the
\* header row, and a row whose cells are all empty is left out
SheetRows(hdrs) ==
  {[j \in 1..Len(hdrs) |-> <<hdrs[j], c[j]>>] :
     c \in {d \in [1..Len(hdrs) -> Texts] : \E j \in 1..Len(hdrs) : d[j] # ""}}

Sheets == UNION {SeqsUpTo(SheetRows(hdrs), MaxRecords) : hdrs \in SheetHeaderRows}

\* the rows of the reconciliation specification with the headers hdrs
RowsOver(hdrs) ==
  {[j \in 1..Len(hdrs) |-> <<hdrs[j], c[j]>>] : c \in [1..Len(hdrs) -> CellTexts]}

HeaderLists == {h \in SeqsUpTo(RowHeaders, MaxHeaders) : Distinct(h)}

\* the collections a previous session may have left in localStorage
Snapshots == SeqsUpTo({Obj(f) : f \in [KeySet -> Texts]}, 1)

\* a key outside the schema
ExtraKey == <<"r", "e", "m", "a", "r", "k", "s">>

\* the objects exported in the export specification: records, and records
\* that carry one more key
ExportObjects ==
  {Obj(f) : f \in [KeySet -> Texts]} \cup
  {Obj(f) : f \in [KeySet \cup {ExtraKey} -> Texts]}

----------------------------------------------------------------------------
(* The last handler run and what it showed or produced *)

\* op: the handler; index: the position it was given (editingIndex for
\* a submit); ok: the answer to its confirm(); alert: the text it
\* alerted, in its parts; json: the rows it decoded; rows: the rows it handed to
\* json_to_sheet; file: the name of the file it wrote
NoEvent ==
  [op |-> "none", index |-> -1, ok |-> TRUE, alert |-> <<>>, json |-> <<>>,
   rows |-> <<>>, file |-> ""]

Quiet(op, index) == [NoEvent EXCEPT !.op = op, !.index = index]

----------------------------------------------------------------------------
(* Application *)

Idle == /\ row = <<>>
        /\ out = [done |-> FALSE, rec |-> emptyRecord]

Init ==
  /\ phase = "mount"
  /\ mounted = TRUE
  /\ records = <<>>
  /\ form = emptyRecord
  /\ editingIndex = -1
  /\ storage \in {Absent, Unparsable} \cup {Json(s) : s \in Snapshots}
  /\ loaded = <<>>
  /\ reading = 0
  /\ writable = TRUE
  /\ event = NoEvent
  /\ Idle

\* the render after setRecords(next) and, when it commits, the effect
\* that saves the collection; an error thrown by the render or by
\* setItem in the effect is caught nowhere and unmounts the tree
Commit(next) ==
  /\ records' = next
  /\ IF Renders(next) /\ writable
     THEN /\ storage' = stringify(next)
          /\ UNCHANGED mounted
     ELSE /\ mounted' = FALSE
          /\ UNCHANGED storage

Ready == phase = "ready" /\ mounted

\* the two effects of the first commit: the load effect queues the
\* parsed collection, the save effect writes the still empty one
MountEffects ==
  /\ phase = "mount" /\ mounted
  /\ loaded' = IF storage.kind = "json" THEN storage.val ELSE <<>>
  /\ IF writable
     THEN /\ storage' = stringify(records)
          /\ phase' = IF storage.kind = "json" THEN "rehydrate" ELSE "ready"
          /\ UNCHANGED mounted
     ELSE /\ phase' = "ready"
          /\ mounted' = FALSE
          /\ UNCHANGED storage
  /\ event' = Quiet("mount", -1)
  /\ UNCHANGED <<records, form, editingIndex, reading, row, out, writable>>

\* the render of the collection the load effect set
Rehydrate ==
  /\ phase = "rehydrate" /\ mounted
  /\ Commit(loaded)
  /\ phase' = "ready"
  /\ event' = Quiet("rehydrate", -1)
  /\ UNCHANGED <<form, editingIndex, loaded, reading, row, out, writable>>

\* handleChange writing the field into the object the form holds, which
\* after handleEdit is the stored record itself
handleChange_InPlace(name, value) ==
  /\ Ready
  /\ form' = WithProp(form, name, value)
  /\ records' = IF editingIndex \in 0..(Len(records) - 1)
                   /\ records[editingIndex + 1] = form
                THEN [records EXCEPT ![editingIndex + 1] = form']
                ELSE records
  /\ event' = Quiet("change", -1)
  /\ UNCHANGED <<phase, mounted, editingIndex, storage, loaded,
                 reading, row, out, writable>>

handleChange(name, value) ==
  /\ Ready
  /\ form' = WithProp(form, name, value)
  /\ event' = Quiet("change", -1)
  /\ UNCHANGED <<phase, mounted, records, editingIndex, storage, loaded,
                 reading, row, out, writable>>

handleSubmit ==
  /\ Ready
  /\ IF editingIndex >= 0
     THEN /\ Commit(SetIndex(Spread(records), editingIndex, form))
          /\ editingIndex' = -1
     ELSE /\ Len(records) < MaxRecords
          /\ Commit(Append(Spread(records), form))
          /\ UNCHANGED editingIndex
  /\ form' = emptyRecord
  /\ event' = Quiet("submit", editingIndex)
  /\ UNCHANGED <<phase, loaded, reading, row, out, writable>>

handleEdit(i) ==
  /\ Ready
  /\ i \in RowIndexes(records)
  /\ form' = records[i + 1]
  /\ editingIndex' = i
  /\ event' = Quiet("edit", i)
  /\ UNCHANGED <<phase, mounted, records, storage, loaded, reading, row, out, writable>>

handleDelete(i, ok) ==
  /\ Ready
  /\ i \in RowIndexes(records)
  /\ event' = [Quiet("delete", i) EXCEPT !.ok = ok]
  /\ IF ok
     THEN Commit(FilterOut(records, i))
     ELSE UNCHANGED <<mounted, records, storage>>
  /\ UNCHANGED <<phase, form, editingIndex, loaded, reading, row, out, writable>>

\* downloadExcel without the check for an empty collection
downloadExcel_NoCheck ==
  /\ Ready
  /\ event' = [Quiet("export", -1) EXCEPT !.rows = exportRows(records),
                                          !.file = "SAANS_Data.xlsx"]
  /\ UNCHANGED <<phase, mounted, records, form, editingIndex, storage, loaded,
                 reading, row, out, writable>>

downloadExcel ==
  /\ Ready
  /\ event' = IF Len(records) = 0
              THEN [Quiet("export", -1) EXCEPT !.alert = <<"No records to export">>]
              ELSE [Quiet("export", -1) EXCEPT !.rows = exportRows(records),
                                               !.file = "SAANS_Data.xlsx"]
  /\ UNCHANGED <<phase, mounted, records, form, editingIndex, storage, loaded,
                 reading, row, out, writable>>

\* the Reset Form button
resetForm ==
  /\ Ready
  /\ form' = emptyRecord
  /\ editingIndex' = -1
  /\ event' = Quiet("reset", -1)
  /\ UNCHANGED <<phase, mounted, records, storage, loaded, reading, row, out, writable>>

clearAll(ok) ==
  /\ Ready
  /\ event' = [Quiet("clear", -1) EXCEPT !.ok = ok]
  /\ IF ok
     THEN Commit(<<>>)
     ELSE UNCHANGED <<mounted, records, storage>>
  /\ UNCHANGED <<phase, form, editingIndex, loaded, reading, row, out, writable>>

\* handleFileInput with a file chosen: reader.readAsArrayBuffer(file)
importExcel ==
  /\ Ready
  /\ reading < MaxReading
  /\ reading' = reading + 1
  /\ event' = Quiet("import", -1)
  /\ UNCHANGED <<phase, mounted, records, form, editingIndex, storage, loaded,
                 row, out, writable>>

\* onload without the check for a sheet without rows
onload_NoCheck(json) ==
  /\ Ready
  /\ reading > 0
  /\ Len(records) + Len(json) <= MaxRecords
  /\ reading' = reading - 1
  /\ event' = [Quiet("onload", -1) EXCEPT !.alert = <<"Imported ", Len(json), " rows.">>,
                                          !.json = json]
  /\ Commit(Spread(records) \o mapped(json))
  /\ UNCHANGED <<phase, form, editingIndex, loaded, row, out, writable>>

\* onload setting the collection to the imported records alone
onload_Overwrites(json) ==
  /\ Ready
  /\ reading > 0
  /\ Len(records) + Len(json) <= MaxRecords
  /\ reading' = reading - 1
  /\ IF Len(json) = 0
     THEN /\ event' = [Quiet("onload", -1) EXCEPT
                         !.alert = <<"No data found in the Excel file.">>]
          /\ UNCHANGED <<mounted, records, storage>>
     ELSE /\ event' = [Quiet("onload", -1) EXCEPT !.alert = <<"Imported ", Len(json), " rows.">>,
                         !.json = json]
          /\ Commit(mapped(json))
  /\ UNCHANGED <<phase, form, editingIndex, loaded, row, out, writable>>

\* reader.onload for a file that decodes to the rows json
onload(json) ==
  /\ Ready
  /\ reading > 0
  /\ Len(records) + Len(json) <= MaxRecords
  /\ reading' = reading - 1
  /\ IF Len(json) = 0
     THEN /\ event' = [Quiet("onload", -1) EXCEPT
                         !.alert = <<"No data found in the Excel file.">>]
          /\ UNCHANGED <<mounted, records, storage>>
     ELSE /\ event' = [Quiet("onload", -1) EXCEPT !.alert = <<"Imported ", Len(json), " rows.">>,
                         !.json = json]
          /\ Commit(Spread(records) \o mapped(json))
  /\ UNCHANGED <<phase, form, editingIndex, loaded, row, out, writable>>

Next ==
  \/ MountEffects
  \/ Rehydrate
  \/ \E name \in KeySet, value \in Texts : handleChange(name, value)
  \/ handleSubmit
  \/ \E i \in 0..(Len(records) - 1) : handleEdit(i)
  \/ \E i \in 0..(Len(records) - 1), ok \in BOOLEAN : handleDelete(i, ok)
  \/ downloadExcel
  \/ resetForm
  \/ \E ok \in BOOLEAN : clearAll(ok)
  \/ importExcel
  \/ \E json \in Sheets : onload(json)

Spec == Init /\ [][Next]_vars

----------------------------------------------------------------------------
(* The application across page loads *)

\* the page is loaded again: the component is constructed anew, the
\* pending readers are gone and localStorage is what the last session left
Reload ==
  /\ phase = "ready"
  /\ phase' = "mount"
  /\ mounted' = TRUE
  /\ records' = <<>>
  /\ form' = emptyRecord
  /\ editingIndex' = -1
  /\ loaded' = <<>>
  /\ reading' = 0
  /\ event' = Quiet("reload", -1)
  /\ UNCHANGED <<storage, row, out, writable>>

NextRestart ==
  \/ Next
  \/ Reload

SpecRestart == Init /\ [][NextRestart]_vars

----------------------------------------------------------------------------
(* The application with a localStorage that stops accepting writes *)

\* from now on localStorage.setItem throws (the quota is exceeded or the
\* storage is disabled)
StorageFills ==
  /\ writable
  /\ writable' = FALSE
  /\ UNCHANGED <<phase, mounted, records, form, editingIndex, storage, loaded,
                 reading, event, row, out>>

NextStorage ==
  \/ Next
  \/ StorageFills

SpecStorage == Init /\ [][NextStorage]_vars

----------------------------------------------------------------------------
(* Reconciliation of one import row *)

InitReconcile ==
  /\ phase = "mount"
  /\ mounted = TRUE
  /\ records = <<>>
  /\ form = emptyRecord
  /\ editingIndex = -1
  /\ storage = Absent
  /\ loaded = <<>>
  /\ reading = 0
  /\ writable = TRUE
  /\ event = NoEvent
  /\ \E hdrs \in HeaderLists : row \in RowsOver(hdrs)
  /\ out = [done |-> FALSE, rec |-> emptyRecord]

\* json.map's callback applied to the row
Reconcile ==
  /\ ~out.done
  /\ out' = [done |-> TRUE, rec |-> mapRow(row)]
  /\ UNCHANGED <<appVars, row>>

NextReconcile == Reconcile

SpecReconcile == InitReconcile /\ [][NextReconcile]_vars

----------------------------------------------------------------------------
(* Export of a collection whose objects lack schema keys *)

\* the objects that have some of the schema keys, as a snapshot written
\* under another schema leaves them in the collection
PartialObjects == UNION {{Obj(f) : f \in [S -> Texts]} : S \in SUBSET KeySet}

InitExportPartial ==
  /\ phase = "ready"
  /\ mounted = TRUE
  /\ records \in SeqsUpTo(PartialObjects, MaxRecords)
  /\ form = emptyRecord
  /\ editingIndex = -1
  /\ storage = stringify(records)
  /\ loaded = <<>>
  /\ reading = 0
  /\ writable = TRUE
  /\ event = NoEvent
  /\ Idle

NextExportPartial == downloadExcel

SpecExportPartial == InitExportPartial /\ [][NextExportPartial]_vars

----------------------------------------------------------------------------
(* Key derivation of one label *)

\* the characters of the labels given to toKey
LabelChars == {"A", "b", "1", " ", "_", "?", "U+2026"}

Labels == SeqsUpTo(LabelChars, MaxLabelLen)

\* row holds the label, out.rec the key derived from it
InitToKey ==
  /\ phase = "mount"
  /\ mounted = TRUE
  /\ records = <<>>
  /\ form = emptyRecord
  /\ editingIndex = -1
  /\ storage = Absent
  /\ loaded = <<>>
  /\ reading = 0
  /\ writable = TRUE
  /\ event = NoEvent
  /\ row \in Labels
  /\ out = [done |-> FALSE, rec |-> <<>>]

\* FIELD_LABELS.map's callback applied to the label
DeriveKey ==
  /\ ~out.done
  /\ out' = [done |-> TRUE, rec |-> toKey(row)]
  /\ UNCHANGED <<appVars, row>>

NextToKey == DeriveKey

SpecToKey == InitToKey /\ [][NextToKey]_vars

----------------------------------------------------------------------------
(* Export of a collection *)

InitExport ==
  /\ phase = "ready"
  /\ mounted = TRUE
  /\ records \in SeqsUpTo(ExportObjects, MaxRecords)
  /\ form = emptyRecord
  /\ editingIndex = -1
  /\ storage = stringify(records)
  /\ loaded = <<>>
  /\ reading = 0
  /\ writable = TRUE
  /\ event = NoEvent
  /\ Idle

NextExport == downloadExcel

SpecExport == InitExport /\ [][NextExport]_vars

----------------------------------------------------------------------------
(* Export of a collection followed by the reconciliation of its rows *)

\* json.map applied to the rows downloadExcel built
reconcileExported ==
  /\ event.op = "export"
  /\ event.rows # <<>>
  /\ ~out.done
  /\ out' = [done |-> TRUE, rec |-> mapped(event.rows)]
  /\ UNCHANGED <<appVars, row>>

NextRoundTrip ==
  \/ downloadExcel
  \/ reconcileExported

SpecRoundTrip == InitExport /\ [][NextRoundTrip]_vars

----------------------------------------------------------------------------
(* The three tiers of header matching, as positions in a row *)

ExactLabel(r, idx) == {i \in 1..Len(r) : r[i][1] = FIELD_LABELS[idx]}

ExactKey(r, idx) == {i \in 1..Len(r) : r[i][1] = FIELD_KEYS[idx]}

LooseLabel(r, idx) ==
  {i \in 1..Len(r) :
     trim(toLowerCase(r[i][1])) = trim(toLowerCase(FIELD_LABELS[idx]))}

First(S) == CHOOSE i \in S : \A j \in S : i <= j

\* the value the first tier that matches gives, the empty text when none does
TierValue(r, idx) ==
  IF ExactLabel(r, idx) # {} THEN r[First(ExactLabel(r, idx))][2]
  ELSE IF ExactKey(r, idx) # {} THEN r[First(ExactKey(r, idx))][2]
  ELSE IF LooseLabel(r, idx) # {} THEN r[First(LooseLabel(r, idx))][2]
  ELSE ""

NoMatch(r) ==
  \A idx \in FieldIndexes :
    ExactLabel(r, idx) \cup ExactKey(r, idx) \cup LooseLabel(r, idx) = {}

----------------------------------------------------------------------------
(* Claims *)

IsRecord(v) == IsObject(v) /\ DOMAIN v.o = KeySet

\* arr[j - 1] as a read gives it: an empty slot reads as undefined
At(arr, j) == IF arr[j] = Hole THEN Undefined ELSE arr[j]

\* rec is a record that holds for every field the value the tiers give for r
ReconciledTo(rec, r) ==
  /\ IsRecord(rec)
  /\ \A idx \in FieldIndexes : Get(rec, FIELD_KEYS[idx]) = TierValue(r, idx)

\* C2: after any sequence of create, update, delete, import, clear-all
\* and form-reset operations from an empty collection or a conformant
\* snapshot, every element of the collection is a record whose key set
\* is exactly the schema's; no element is absent or undefined.
C2_Claim == \A i \in 1..Len(records) : IsRecord(records[i])

\* C3: a submit in edit mode whose editingIndex is no longer a position
\* of the collection, or a delete at such an index, leaves the collection
\* unchanged and never extends it.
C3_Claim ==
  [][((event'.op = "submit" /\ editingIndex >= Len(records))
      \/ (event'.op = "delete" /\ event'.ok
            /\ event'.index \notin 0..(Len(records) - 1)))
     => records' = records]_vars

\* C4: a submit while editingIndex is a position of the collection
\* leaves the length unchanged, puts at that position the full record
\* held by the form and leaves what every other position reads as
\* unchanged.
C4_UpdateInPlace ==
  [][(event'.op = "submit" /\ editingIndex \in 0..(Len(records) - 1))
     => /\ Len(records') = Len(records)
        /\ IsRecord(form)
        /\ records'[editingIndex + 1] = form
        /\ \A j \in 1..Len(records) :
             j # editingIndex + 1 => At(records', j) = At(records, j)]_vars

\* an update of the first of two records that leaves them different
C4_Witness ==
  /\ event.op = "submit"
  /\ event.index = 0
  /\ Len(records) = 2
  /\ IsRecord(records[1]) /\ IsRecord(records[2])
  /\ records[1] # records[2]
  /\ records[1] # emptyRecord

\* C5: a confirmed delete at a position of the collection shortens it by
\* exactly one, leaves the earlier positions unchanged and moves each
\* later record one position down.
C5_Claim ==
  [][(event'.op = "delete" /\ event'.ok /\ event'.index \in 0..(Len(records) - 1))
     => /\ Len(records') = Len(records) - 1
        /\ \A j \in 1..event'.index : records'[j] = records[j]
        /\ \A j \in (event'.index + 2)..Len(records) : records'[j - 1] = records[j]]_vars

\* C6: an import callback that decoded n >= 1 rows appends n records, the
\* i-th of them holding for every field the value the tiers give for row
\* i, and every position of the collection before the import reads as
\* it did.
C6_ImportAppends ==
  [][(event'.op = "onload" /\ event'.json # <<>>)
     => /\ Len(records') = Len(records) + Len(event'.json)
        /\ \A i \in 1..Len(event'.json) :
             /\ IsRecord(records'[Len(records) + i])
             /\ \A idx \in FieldIndexes :
                  Get(records'[Len(records) + i], FIELD_KEYS[idx])
                    = TierValue(event'.json[i], idx)
        /\ \A j \in 1..Len(records) : At(records', j) = At(records, j)]_vars

\* an import of two rows that reconcile to different records
C6_Witness ==
  /\ event.op = "onload"
  /\ Len(event.json) = 2
  /\ Len(records) = 2
  /\ records[1] # records[2]
  /\ event.alert = <<"Imported ", 2, " rows.">>

\* C8: an import callback that decoded no row alerts that no data was
\* found and leaves the collection and the stored snapshot as they were.
C8_NoDataFound ==
  [][(event'.op = "onload" /\ event'.json = <<>>)
     => /\ event'.alert = <<"No data found in the Excel file.">>
        /\ records' = records
        /\ storage' = storage]_vars

\* an empty sheet decoded while the collection holds a record
C8_Witness ==
  /\ event.op = "onload"
  /\ event.json = <<>>
  /\ event.alert = <<"No data found in the Excel file.">>
  /\ Len(records) > 0
  /\ storage = stringify(records)

\* C9: an export of the empty collection alerts that there are no
\* records, hands no rows to the codec, writes no file and leaves the
\* collection unchanged.
C9_EmptyExport ==
  [][(event'.op = "export" /\ Len(records) = 0)
     => /\ event'.alert = <<"No records to export">>
        /\ event'.rows = <<>>
        /\ event'.file = ""
        /\ records' = records]_vars

\* an export run on the empty collection
C9_Witness ==
  /\ event.op = "export"
  /\ records = <<>>
  /\ event.alert = <<"No records to export">>
  /\ event.file = ""

\* C10: an export of a non-empty collection hands over one row per
\* record in collection order; the headers of each row are the schema's
\* labels in schema order, whatever further keys the record carries, and
\* the value under label j is the record's value for key j.
C10_ExportRows ==
  (event.op = "export" /\ Len(records) > 0) =>
    /\ Len(event.rows) = Len(records)
    /\ \A i \in 1..Len(records) :
         /\ Keys(event.rows[i]) = FIELD_LABELS
         /\ \A j \in FieldIndexes :
              event.rows[i][j][2] = Get(records[i], FIELD_KEYS[j])

\* an export of two different objects, one of them with a key outside
\* the schema
C10_Witness ==
  /\ event.op = "export"
  /\ Len(records) = 2
  /\ records[1] # records[2]
  /\ ExtraKey \in DOMAIN records[1].o
  /\ Len(event.rows) = 2
  /\ event.rows[1] # event.rows[2]

\* C11: for every sequence of records of the schema, reconciling the rows
\* that export builds from them gives back the same records, field by
\* field and in the same order.
C11_RoundTrip ==
  (out.done /\ \A i \in 1..Len(records) : IsRecord(records[i])) => out.rec = records

\* two different records of the schema, one with a non-empty field,
\* exported and reconciled
C11_Witness ==
  /\ out.done
  /\ Len(records) = 2
  /\ IsRecord(records[1]) /\ IsRecord(records[2])
  /\ records[1] # records[2]
  /\ records[1] # emptyRecord
  /\ out.rec = records

\* C12: after every step that mutates the collection (create, update,
\* confirmed delete, confirmed clear-all, import append) the persisted
\* snapshot is the encoding of the whole current collection.
C12_Claim ==
  [][((event'.op \in {"submit", "onload"})
      \/ (event'.op \in {"delete", "clear"} /\ event'.ok))
     => storage' = stringify(records')]_vars

\* C13: when localStorage holds a snapshot at the start of a session,
\* then once the startup has rendered the loaded collection the
\* collection is that snapshot and localStorage still holds it.
C13_Claim ==
  event.op = "rehydrate"
    => /\ mounted
       /\ records = loaded
       /\ storage = Json(loaded)

\* C14: a startup whose stored text cannot be decoded into a collection
\* of records (it does not parse, or it parses to a list with an element
\* that is not a record) ends as a startup without a snapshot does: the
\* tree is mounted, the collection is empty and the empty collection is
\* what is persisted.
C14_Claim ==
  [][(/\ phase' = "ready"
      /\ \/ event'.op = "mount" /\ storage = Unparsable
         \/ event'.op = "rehydrate" /\ \E i \in 1..Len(loaded) : ~IsRecord(loaded[i]))
     => /\ mounted'
        /\ records' = <<>>
        /\ storage' = stringify(<<>>)]_vars

WellFormedKey(k) ==
  /\ \A i \in 1..Len(k) : IsAlnum(k[i]) \/ k[i] = "_"
  /\ k # <<>> => (k[1] # "_" /\ k[Len(k)] # "_")
  /\ \A i \in 1..(Len(k) - 1) : ~(k[i] = "_" /\ k[i + 1] = "_")

C17_Claim ==
  (event.op = "export" /\ Len(records) > 0) =>
    \A i \in 1..Len(records) :
      /\ Keys(event.rows[i]) = FIELD_LABELS
      /\ \A j \in FieldIndexes :
           FIELD_KEYS[j] \notin DOMAIN records[i].o => event.rows[i][j][2] = ""

\* C18: a mutating step whose save fails still completes: the collection
\* holds its result and the tree stays mounted, so that later handlers
\* run.
C18_Claim ==
  [][(/\ ~writable
      /\ (event'.op \in {"submit", "onload"})
           \/ (event'.op \in {"delete", "clear"} /\ event'.ok)
      /\ Renders(records'))
     => mounted']_vars

\* C19: while the edit mode lasts, editingIndex stays a position of the
\* collection and that position keeps the record that was selected, so
\* the submit that ends the edit replaces that record and no other.
C19_Claim ==
  [][(/\ editingIndex \in 0..(Len(records) - 1)
      /\ editingIndex' = editingIndex
      /\ event'.op # "edit")
     => /\ editingIndex < Len(records')
        /\ records'[editingIndex + 1] = records[editingIndex + 1]]_vars

\* C20: selecting a record for edit, changing a form field, resetting
\* the form, exporting, starting an import, an import callback without
\* rows and a declined delete or clear-all leave the collection as it is.
C20_FrameOfReads ==
  [][(\/ event'.op \in {"edit", "change", "reset", "export", "import"}
      \/ event'.op \in {"delete", "clear"} /\ ~event'.ok
      \/ event'.op = "onload" /\ event'.json = <<>>)
     => records' = records]_vars

\* a form field was changed after Edit loaded the first of two records
\* into the form, and the stored record is not what the form holds
C20_Witness ==
  /\ event.op = "change"
  /\ editingIndex = 0
  /\ Len(records) = 2
  /\ IsRecord(records[1]) /\ IsRecord(records[2])
  /\ IsRecord(form)
  /\ form # records[1]
  /\ form # emptyRecord

====
